---- MODULE Spec2Model ----
(***************************************************************************)
(* A model of app/src/main/cpp/opus_jni.cpp: the JNI bridge between the    *)
(* Java class OpusCodec and libopus.                                       *)
(*                                                                         *)
(* The bridge keeps no state of its own.  Its state is the native heap on   *)
(* which libopus allocates encoder and decoder instances, and the frame of  *)
(* each native call in progress.  A handle is the address of an instance,   *)
(* cast to a jlong.                                                         *)
(*                                                                         *)
(* libopus is outside the repository: it is modelled by its documented      *)
(* contract (opus.h), with every result the documentation allows chosen     *)
(* nondeterministically.  A library call on a pointer that is not the       *)
(* address of a live instance of the right type is undefined behaviour; it  *)
(* is modelled as a choice between the process dying (crashed) and the call *)
(* returning any of the results its contract allows.  Corruption of the     *)
(* allocator's own metadata is not modelled.  JNI allocations               *)
(* (GetByteArrayElements, NewByteArray) and operator new[] are taken to     *)
(* succeed.  Spec has one calling thread; the frames are kept per thread.   *)
(***************************************************************************)
EXTENDS Integers, Sequences, FiniteSets, TLC

\* ------------------------------------------------------------------ bounds

\* Number of addresses at which the allocator can place a codec instance.
MaxAddr == 2

\* Width, in bits, of a pointer and of a jlong in the model (64 in an LP64 build).
WordBits == 3

\* ------------------------------------------------- constants of the program

max_encoded_size == 1024

max_frame_size == 1024

\* sizeof(int16_t): "2 bytes per 16-bit sample"
BytesPerSample == 2

\* libopus status codes (opus_defines.h)
OPUS_OK == 0

OPUS_BAD_ARG == -1

OPUS_BUFFER_TOO_SMALL == -2

OPUS_INVALID_PACKET == -4

OPUS_ALLOC_FAIL == -7

\* nullptr
NULL == 0

\* ------------------------------------------------------ pointers and handles

Word == 2 ^ WordBits

\* The addresses the allocator hands out.  They straddle Word/2, so that some
\* have the top bit set (as tagged heap pointers have on AArch64 Android).
Addr == { (Word \div 2) - 1 + i : i \in 0 .. (MaxAddr - 1) }

\* An address that is never the address of an instance.
WildPtr == Word - 1

ToHandle_flag(p) == IF p # NULL THEN 1 ELSE 0

\* reinterpret_cast<jlong>(pointer): the same bits, read as a signed integer.
ToHandle(p) == IF p >= Word \div 2 THEN p - Word ELSE p

ToPtr_narrowed(h) == h % (Word \div 2)

\* reinterpret_cast<OpusEncoder*>(jlong): the same bits, read as an address.
ToPtr(h) == h % Word

IsSentinel_never(h) == FALSE

\* encoder_handle == 0 / decoder_handle == 0
IsSentinel(h) == h = 0

\* The handles a caller may pass: the sentinel, every handle an init call can
\* return, and one value that was never returned.
Handles == {0} \cup { ToHandle(a) : a \in Addr } \cup { ToHandle(WildPtr) }

\* ------------------------------------------------------------------- state

VARIABLES
    heap,      \* [Addr -> instance or Free]: the instances libopus has allocated
    freed,     \* the instances destroyed whose address was not allocated again
               \* since: [addr, kind of the instance, by: kind the release was for]
    sessions,  \* the sessions the caller holds, in order of creation
    thr,       \* [Threads -> frame]: the native call each thread is in
    crashed    \* TRUE once undefined behaviour has killed the process

vars == <<heap, freed, sessions, thr, crashed>>

Threads == {"A", "B"}

\* The threads that make calls in the sequential specification.
SeqThreads == {"A"}

Free == [kind |-> "free", channels |-> 0]

Instance(kind, channels) == [kind |-> kind, channels |-> channels]

\* A jbyteArray result: nullptr, or an array of n bytes.
Absent == << >>

Array(n) == << n >>

IdleFrame ==
    \* inst: the instance the library call worked on; in, scr, out: the thread
    \* whose input array was acquired, is encoded in the scratch buffer, and is
    \* in the result array
    [pc |-> "idle", op |-> "none", handle |-> 0, len |-> 0, frame_size |-> 0,
     args |-> << >>, err |-> OPUS_OK, ctl |-> << >>,
     acq |-> 0, rel |-> 0, allocs |-> 0, frees |-> 0, cap |-> 0, maxOut |-> 0,
     libcalls |-> 0, libOn |-> "none", ch |-> 0, result |-> 0, copied |-> 0,
     inst |-> NULL, in |-> "none", scr |-> "none", out |-> "none",
     tok |-> 0, ret |-> Absent]

Init ==
    /\ heap = [a \in Addr |-> Free]
    /\ freed = {}
    /\ sessions = << >>
    /\ thr = [t \in Threads |-> IdleFrame]
    /\ crashed = FALSE

\* ----------------------------------------------------------------- libopus

FreedAddrs == { f.addr : f \in freed }

\* The instance at address p, as a call that expects `kind` finds it.
Classify(p, kind) ==
    IF p \notin Addr THEN "wild"
    ELSE IF heap[p] = Free THEN (IF p \in FreedAddrs THEN "freed" ELSE "wild")
    ELSE IF heap[p].kind = kind THEN "live"
    ELSE "wrong"

FreeAddrs == { a \in Addr : heap[a] = Free }

ValidFs(Fs) == Fs \in {8000, 12000, 16000, 24000, 48000}

ValidChannels(channels) == channels \in {1, 2}

\* OPUS_APPLICATION_VOIP, _AUDIO, _RESTRICTED_LOWDELAY
ValidApplication(application) == application \in {2048, 2049, 2051}

\* opus_encoder_create: the <<instance, error>> pairs it can produce.  On an
\* error the library returns no instance.
opus_encoder_create(Fs, channels, application) ==
    IF ~(ValidFs(Fs) /\ ValidChannels(channels) /\ ValidApplication(application))
    THEN { <<NULL, OPUS_BAD_ARG>> }
    ELSE { <<NULL, OPUS_ALLOC_FAIL>> } \cup { <<a, OPUS_OK>> : a \in FreeAddrs }

\* opus_decoder_create
opus_decoder_create(Fs, channels) ==
    IF ~(ValidFs(Fs) /\ ValidChannels(channels))
    THEN { <<NULL, OPUS_BAD_ARG>> }
    ELSE { <<NULL, OPUS_ALLOC_FAIL>> } \cup { <<a, OPUS_OK>> : a \in FreeAddrs }

\* The heap after a create call that produced `out`.
HeapAfterCreate(out, kind, channels) ==
    IF out[1] = NULL THEN heap
    ELSE [heap EXCEPT ![out[1]] = Instance(kind, channels)]

\* opus_encoder_ctl(st, OPUS_SET_BITRATE(x)); OPUS_AUTO is -1000, OPUS_BITRATE_MAX -1
SetBitrateStatus(x) ==
    IF x > 0 \/ x = -1000 \/ x = -1 THEN OPUS_OK ELSE OPUS_BAD_ARG

\* opus_encoder_ctl(st, OPUS_SET_COMPLEXITY(x))
SetComplexityStatus(x) == IF x >= 0 /\ x <= 10 THEN OPUS_OK ELSE OPUS_BAD_ARG

\* opus_encoder_ctl(st, OPUS_SET_VBR(x)) and OPUS_SET_DTX(x)
SetFlagStatus(x) == IF x \in {0, 1} THEN OPUS_OK ELSE OPUS_BAD_ARG

\* opus_encoder_ctl(st, OPUS_SET_SIGNAL(OPUS_SIGNAL_VOICE)): always accepted
SetSignalStatus == OPUS_OK

\* opus_encoder_ctl(st, OPUS_SET_LSB_DEPTH(x))
SetLsbDepthStatus(x) == IF x >= 8 /\ x <= 24 THEN OPUS_OK ELSE OPUS_BAD_ARG

\* ------------------------------------------------------------ caller inputs

SampleRates == {16000, 44100}

ChannelCounts == {1, 2, 3}

Applications == {2048}

Bitrates == {16000, 0}

Complexities == {5, 11}

\* frame_size, in samples per channel
FrameSizes == {160, 960, 2880}

\* length of the input array, in bytes
InputLens == {320, 1920}

\* The durations, in samples per channel, of the packets handed to decode.
PacketSamples == {160, 960, 2880}

\* ----------------------------------------------------------- the handlers

Idle(t) == ~crashed /\ thr[t].pc = "idle"

BoolToInt(b) == IF b THEN 1 ELSE 0

CreateFailed_inverted(error, instance) == error = OPUS_OK \/ instance = NULL

\* if (error != OPUS_OK || encoder == nullptr)
CreateFailed(error, instance) == error # OPUS_OK \/ instance = NULL

\* The caller's sessions once an init call has returned tok.
SessionsAfterInit(tok, role, channels) ==
    IF tok = 0 THEN sessions
    ELSE Append(sessions, [token |-> tok, role |-> role, channels |-> channels])

\* The body of nativeInitEncoder, called with these arguments.
InitEncoderCall(t, sample_rate, channels, application, bitrate, complexity, vbr, dtx) ==
         \E out \in opus_encoder_create(sample_rate, channels, application) :
           LET encoder == out[1]
               error   == out[2]
               failed  == CreateFailed(error, encoder)
               ctl     == IF failed THEN << >>
                          ELSE << SetBitrateStatus(bitrate),
                                  SetComplexityStatus(complexity),
                                  SetFlagStatus(BoolToInt(vbr)),
                                  SetFlagStatus(BoolToInt(dtx)),
                                  SetSignalStatus,
                                  SetLsbDepthStatus(16) >>
               tok     == IF failed THEN 0 ELSE ToHandle(encoder)
           IN  /\ heap' = HeapAfterCreate(out, "enc", channels)
               /\ freed' = { f \in freed : f.addr # encoder }
               /\ sessions' = SessionsAfterInit(tok, "enc", channels)
               /\ thr' = [thr EXCEPT ![t] =
                            [IdleFrame EXCEPT !.pc = "done", !.op = "initEncoder",
                               !.args = <<sample_rate, channels, application,
                                          bitrate, complexity>>,
                               !.err = error, !.ctl = ctl, !.tok = tok]]
               /\ UNCHANGED crashed

\* nativeInitEncoder
InitEncoder(t) ==
    /\ Idle(t)
    /\ \E sample_rate \in SampleRates, channels \in ChannelCounts,
          application \in Applications, bitrate \in Bitrates,
          complexity \in Complexities, vbr \in BOOLEAN, dtx \in BOOLEAN :
         InitEncoderCall(t, sample_rate, channels, application, bitrate,
                         complexity, vbr, dtx)

\* The body of nativeInitDecoder, called with these arguments.
InitDecoderCall(t, sample_rate, channels) ==
         \E out \in opus_decoder_create(sample_rate, channels) :
           LET decoder == out[1]
               error   == out[2]
               failed  == CreateFailed(error, decoder)
               tok     == IF failed THEN 0 ELSE ToHandle(decoder)
           IN  /\ heap' = HeapAfterCreate(out, "dec", channels)
               /\ freed' = { f \in freed : f.addr # decoder }
               /\ sessions' = SessionsAfterInit(tok, "dec", channels)
               /\ thr' = [thr EXCEPT ![t] =
                            [IdleFrame EXCEPT !.pc = "done", !.op = "initDecoder",
                               !.args = <<sample_rate, channels>>,
                               !.err = error, !.tok = tok]]
               /\ UNCHANGED crashed

\* nativeInitDecoder
InitDecoder(t) ==
    /\ Idle(t)
    /\ \E sample_rate \in SampleRates, channels \in ChannelCounts :
         InitDecoderCall(t, sample_rate, channels)

\* nativeGetVersion
GetVersion(t) ==
    /\ Idle(t)
    /\ thr' = [thr EXCEPT ![t] = [IdleFrame EXCEPT !.pc = "done", !.op = "getVersion"]]
    /\ UNCHANGED <<heap, freed, sessions, crashed>>

\* The caller's sessions once release has been called with handle h.
SessionsAfterRelease(h) == SelectSeq(sessions, LAMBDA s : s.token # h)

Destroy_leak(t, op, kind, h) ==
    /\ sessions' = SessionsAfterRelease(h)
    /\ thr' = [thr EXCEPT ![t] =
                 [IdleFrame EXCEPT !.pc = "done", !.op = op, !.handle = h,
                                   !.libcalls = 1,
                                   !.libOn = Classify(ToPtr(h), kind)]]
    /\ UNCHANGED <<heap, freed, crashed>>

\* opus_encoder_destroy / opus_decoder_destroy on address p, called from thread
\* t's release handler for instances of `kind`.  Both are free(): a live
\* instance is freed whatever its type.  A pointer that is not the address
\* of a live instance is undefined behaviour: the process dies, or nothing
\* visible happens.
Destroy(t, op, kind, h) ==
    LET p  == ToPtr(h)
        on == Classify(p, kind)
        fr == [IdleFrame EXCEPT !.op = op, !.handle = h,
                                !.libcalls = 1, !.libOn = on]
    IN  IF on \in {"live", "wrong"}
        THEN /\ heap' = [heap EXCEPT ![p] = Free]
             /\ freed' = freed \cup {[addr |-> p, kind |-> heap[p].kind, by |-> kind]}
             /\ sessions' = SessionsAfterRelease(h)
             /\ thr' = [thr EXCEPT ![t] = [fr EXCEPT !.pc = "done"]]
             /\ UNCHANGED crashed
        ELSE \/ /\ crashed' = TRUE
                /\ thr' = [thr EXCEPT ![t] = [fr EXCEPT !.pc = "crashed"]]
                /\ UNCHANGED <<heap, freed, sessions>>
             \/ /\ sessions' = SessionsAfterRelease(h)
                /\ thr' = [thr EXCEPT ![t] = [fr EXCEPT !.pc = "done"]]
                /\ UNCHANGED <<heap, freed, crashed>>

\* The body shared by nativeReleaseEncoder and nativeReleaseDecoder, called
\* with handle h: if (encoder_handle != 0) { opus_encoder_destroy(encoder); }
ReleaseCall(t, op, kind, h) ==
         IF IsSentinel(h)
         THEN /\ thr' = [thr EXCEPT ![t] =
                           [IdleFrame EXCEPT !.pc = "done", !.op = op, !.handle = h]]
              /\ UNCHANGED <<heap, freed, sessions, crashed>>
         ELSE Destroy(t, op, kind, h)

\* nativeReleaseEncoder / nativeReleaseDecoder, called with any handle.
Release(t, op, kind) ==
    /\ Idle(t)
    /\ \E h \in Handles : ReleaseCall(t, op, kind, h)

\* nativeReleaseEncoder
ReleaseEncoder(t) == Release(t, "releaseEncoder", "enc")

\* nativeReleaseDecoder
ReleaseDecoder(t) == Release(t, "releaseDecoder", "dec")

\* opus_encode(st, pcm, frame_size, data, max_data_bytes): the values it can
\* return.  The packet never exceeds max_data_bytes.
opus_encode(frame_size, max_data_bytes) ==
    {OPUS_BAD_ARG, OPUS_BUFFER_TOO_SMALL}
        \cup (IF frame_size > 0 /\ max_data_bytes > 0 THEN {1, max_data_bytes} ELSE {})

\* opus_decode(st, data, len, pcm, frame_size, 0): the values it can return,
\* a number of samples per channel that never exceeds frame_size.
opus_decode(frame_size) ==
    {OPUS_BAD_ARG, OPUS_BUFFER_TOO_SMALL, OPUS_INVALID_PACKET}
        \cup { n \in PacketSamples : n <= frame_size }

\* Thread t's call dies of undefined behaviour in frame fr.
Crash(t, fr) ==
    /\ crashed' = TRUE
    /\ thr' = [thr EXCEPT ![t] = [fr EXCEPT !.pc = "crashed"]]
    /\ UNCHANGED <<heap, freed, sessions>>

\* Thread t's call goes on in frame fr; nothing else changes.
Goto(t, fr) ==
    /\ thr' = [thr EXCEPT ![t] = fr]
    /\ UNCHANGED <<heap, freed, sessions, crashed>>

At(t, pc) == ~crashed /\ thr[t].pc = pc

\* The channel count of the instance at p (0 when there is none).
ChannelsAt(p) == IF p \in Addr THEN heap[p].channels ELSE 0

\* nativeEncode is entered with these arguments:
\* if (encoder_handle == 0) return nullptr;
EncodeCall(t, h, len, frame_size) ==
         LET fr == [IdleFrame EXCEPT !.op = "encode", !.handle = h,
                                     !.len = len, !.frame_size = frame_size]
         IN  IF IsSentinel(h)
             THEN Goto(t, [fr EXCEPT !.pc = "done", !.ret = Absent])
             ELSE Goto(t, [fr EXCEPT !.pc = "enc_get"])

\* nativeEncode is entered, with any arguments.
EncodeEnter(t) ==
    /\ Idle(t)
    /\ \E h \in Handles, len \in InputLens, frame_size \in FrameSizes :
         EncodeCall(t, h, len, frame_size)

\* jbyte* pcm_bytes = env->GetByteArrayElements(pcm_data, nullptr);
EncodeGetElements(t) ==
    /\ At(t, "enc_get")
    /\ Goto(t, [thr[t] EXCEPT !.pc = "enc_alloc", !.acq = @ + 1, !.in = t])

\* unsigned char* encoded_data = new unsigned char[max_encoded_size];
EncodeAlloc(t) ==
    /\ At(t, "enc_alloc")
    /\ Goto(t, [thr[t] EXCEPT !.pc = "enc_lib", !.allocs = @ + 1,
                              !.cap = max_encoded_size])

\* A process-wide encoder: the encoder instance at the lowest address.
GlobalEncoder ==
    LET encs == { a \in Addr : heap[a].kind = "enc" }
    IN  IF encs = {} THEN NULL ELSE CHOOSE a \in encs : \A b \in encs : a <= b

EncodeLib_global(t) ==
    /\ At(t, "enc_lib")
    /\ LET encoder == GlobalEncoder
           on      == Classify(encoder, "enc")
           ch      == ChannelsAt(encoder)
           fr      == [thr[t] EXCEPT !.libcalls = @ + 1, !.libOn = on, !.ch = ch,
                                     !.maxOut = max_encoded_size,
                                     !.inst = encoder, !.scr = thr[t].in]
           overread == thr[t].frame_size * ch * BytesPerSample > thr[t].len
       IN  \/ \E r \in opus_encode(thr[t].frame_size, max_encoded_size) :
                Goto(t, [fr EXCEPT !.pc = "enc_rel", !.result = r])
           \/ /\ on # "live" \/ overread
              /\ Crash(t, fr)

\* opus_encode(encoder, pcm_shorts, frame_size, encoded_data, max_encoded_size)
EncodeLib(t) ==
    /\ At(t, "enc_lib")
    /\ LET encoder == ToPtr(thr[t].handle)
           on      == Classify(encoder, "enc")
           ch      == ChannelsAt(encoder)
           fr      == [thr[t] EXCEPT !.libcalls = @ + 1, !.libOn = on, !.ch = ch,
                                     !.maxOut = max_encoded_size,
                                     !.inst = encoder, !.scr = thr[t].in]
           \* the library reads frame_size * channels samples of the input
           overread == thr[t].frame_size * ch * BytesPerSample > thr[t].len
       IN  \/ \E r \in opus_encode(thr[t].frame_size, max_encoded_size) :
                Goto(t, [fr EXCEPT !.pc = "enc_rel", !.result = r])
           \/ /\ on # "live" \/ overread
              /\ Crash(t, fr)

EncodeReleaseElements_skip(t) ==
    /\ At(t, "enc_rel")
    /\ Goto(t, [thr[t] EXCEPT !.pc = "enc_chk"])

\* env->ReleaseByteArrayElements(pcm_data, pcm_bytes, JNI_ABORT);
EncodeReleaseElements(t) ==
    /\ At(t, "enc_rel")
    /\ Goto(t, [thr[t] EXCEPT !.pc = "enc_chk", !.rel = @ + 1])

EncodeFailed_leak(t) ==
    /\ At(t, "enc_chk")
    /\ thr[t].result < 0
    /\ Goto(t, [thr[t] EXCEPT !.pc = "done", !.ret = Absent])

\* if (encoded_bytes < 0) { delete[] encoded_data; return nullptr; }
EncodeFailed(t) ==
    /\ At(t, "enc_chk")
    /\ thr[t].result < 0
    /\ Goto(t, [thr[t] EXCEPT !.pc = "done", !.frees = @ + 1, !.ret = Absent])

EncodeResult_wholeBuffer(t) ==
    /\ At(t, "enc_chk")
    /\ thr[t].result >= 0
    /\ Goto(t, [thr[t] EXCEPT !.pc = "enc_free", !.ret = Array(max_encoded_size),
                              !.copied = max_encoded_size])

\* NewByteArray(encoded_bytes); SetByteArrayRegion(result, 0, encoded_bytes, ...)
EncodeResult(t) ==
    /\ At(t, "enc_chk")
    /\ thr[t].result >= 0
    /\ Goto(t, [thr[t] EXCEPT !.pc = "enc_free", !.ret = Array(thr[t].result),
                              !.copied = thr[t].result, !.out = thr[t].scr])

\* delete[] encoded_data; return result;
EncodeFree(t) ==
    /\ At(t, "enc_free")
    /\ Goto(t, [thr[t] EXCEPT !.pc = "done", !.frees = @ + 1])

\* nativeDecode is entered with these arguments:
\* if (decoder_handle == 0) return nullptr;
DecodeCall(t, h, len, frame_size) ==
         LET fr == [IdleFrame EXCEPT !.op = "decode", !.handle = h,
                                     !.len = len, !.frame_size = frame_size]
         IN  IF IsSentinel(h)
             THEN Goto(t, [fr EXCEPT !.pc = "done", !.ret = Absent])
             ELSE Goto(t, [fr EXCEPT !.pc = "dec_get"])

\* nativeDecode is entered, with any arguments.
DecodeEnter(t) ==
    /\ Idle(t)
    /\ \E h \in Handles, len \in InputLens, frame_size \in FrameSizes :
         DecodeCall(t, h, len, frame_size)

\* jbyte* opus_bytes = env->GetByteArrayElements(opus_data, nullptr);
DecodeGetElements(t) ==
    /\ At(t, "dec_get")
    /\ Goto(t, [thr[t] EXCEPT !.pc = "dec_alloc", !.acq = @ + 1, !.in = t])

\* int16_t* pcm_data = new int16_t[max_frame_size];
DecodeAlloc(t) ==
    /\ At(t, "dec_alloc")
    /\ Goto(t, [thr[t] EXCEPT !.pc = "dec_lib", !.allocs = @ + 1,
                              !.cap = max_frame_size])

\* opus_decode(decoder, opus_bytes, opus_length, pcm_data, frame_size, 0): the
\* library may write frame_size * channels samples into pcm_data, and writes
\* result * channels.
DecodeLib(t) ==
    /\ At(t, "dec_lib")
    /\ LET decoder == ToPtr(thr[t].handle)
           on      == Classify(decoder, "dec")
           ch      == ChannelsAt(decoder)
           fr      == [thr[t] EXCEPT !.libcalls = @ + 1, !.libOn = on, !.ch = ch,
                                     !.maxOut = thr[t].frame_size,
                                     !.inst = decoder, !.scr = thr[t].in]
       IN  \/ \E r \in opus_decode(thr[t].frame_size) :
                Goto(t, [fr EXCEPT !.pc = "dec_rel", !.result = r])
           \/ /\ on # "live" \/ thr[t].frame_size * ch > thr[t].cap
              /\ Crash(t, fr)

\* env->ReleaseByteArrayElements(opus_data, opus_bytes, JNI_ABORT);
DecodeReleaseElements(t) ==
    /\ At(t, "dec_rel")
    /\ Goto(t, [thr[t] EXCEPT !.pc = "dec_chk", !.rel = @ + 1])

DecodeFailed_emptyArray(t) ==
    /\ At(t, "dec_chk")
    /\ thr[t].result < 0
    /\ Goto(t, [thr[t] EXCEPT !.pc = "done", !.frees = @ + 1, !.ret = Array(0)])

DecodeFailed_releases(t) ==
    /\ At(t, "dec_chk")
    /\ thr[t].result < 0
    /\ thr' = [thr EXCEPT ![t] = [@ EXCEPT !.pc = "done", !.frees = @ + 1,
                                           !.ret = Absent]]
    /\ heap' = [a \in Addr |-> IF a = ToPtr(thr[t].handle) THEN Free ELSE heap[a]]
    /\ UNCHANGED <<freed, sessions, crashed>>

\* if (decoded_samples < 0) { delete[] pcm_data; return nullptr; }
DecodeFailed(t) ==
    /\ At(t, "dec_chk")
    /\ thr[t].result < 0
    /\ Goto(t, [thr[t] EXCEPT !.pc = "done", !.frees = @ + 1, !.ret = Absent])

\* int pcm_bytes_count = decoded_samples * 2;
PcmBytesCount(decoded_samples) == decoded_samples * BytesPerSample

\* NewByteArray(pcm_bytes_count); SetByteArrayRegion(result, 0, pcm_bytes_count, ...)
DecodeResult(t) ==
    /\ At(t, "dec_chk")
    /\ thr[t].result >= 0
    /\ LET pcm_bytes_count == PcmBytesCount(thr[t].result)
       IN  Goto(t, [thr[t] EXCEPT !.pc = "dec_free", !.ret = Array(pcm_bytes_count),
                                  !.copied = pcm_bytes_count, !.out = thr[t].scr])

\* delete[] pcm_data; return result;
DecodeFree(t) ==
    /\ At(t, "dec_free")
    /\ Goto(t, [thr[t] EXCEPT !.pc = "done", !.frees = @ + 1])

\* The native call returns to Java.
Return(t) ==
    /\ ~crashed
    /\ thr[t].pc = "done"
    /\ thr' = [thr EXCEPT ![t] = IdleFrame]
    /\ UNCHANGED <<heap, freed, sessions, crashed>>

Step(t) ==
    \/ InitEncoder(t)
    \/ InitDecoder(t)
    \/ GetVersion(t)
    \/ ReleaseEncoder(t)
    \/ ReleaseDecoder(t)
    \/ EncodeEnter(t)
    \/ EncodeGetElements(t)
    \/ EncodeAlloc(t)
    \/ EncodeLib(t)
    \/ EncodeReleaseElements(t)
    \/ EncodeFailed(t)
    \/ EncodeResult(t)
    \/ EncodeFree(t)
    \/ DecodeEnter(t)
    \/ DecodeGetElements(t)
    \/ DecodeAlloc(t)
    \/ DecodeLib(t)
    \/ DecodeReleaseElements(t)
    \/ DecodeFailed(t)
    \/ DecodeResult(t)
    \/ DecodeFree(t)
    \/ Return(t)

Next == \E t \in SeqThreads : Step(t)

Spec == Init /\ [][Next]_vars

\* ------------------------------------------- a caller that keeps the contract

\* The arguments of the calls made concurrently.
ConcChannels == {1, 2}

ConcFrameSizes == {160}

ConcLens == {640}

\* A call with handle h has been entered and has not yet returned to Java, or
\* the init call that created h has not yet returned it.
Busy(h) ==
    \E u \in Threads :
        thr[u].pc # "idle" /\ (thr[u].handle = h \/ thr[u].tok = h)

\* The tokens of the caller's sessions of this role that no call is using.
Usable(role) ==
    { sessions[i].token : i \in { j \in DOMAIN sessions :
                                    sessions[j].role = role /\ ~Busy(sessions[j].token) } }

ConcInitEncoder(t) ==
    /\ Idle(t)
    /\ \E channels \in ConcChannels :
         InitEncoderCall(t, 16000, channels, 2048, 16000, 5, FALSE, TRUE)

ConcInitDecoder(t) ==
    /\ Idle(t)
    /\ \E channels \in ConcChannels : InitDecoderCall(t, 16000, channels)

ConcEncode(t) ==
    /\ Idle(t)
    /\ \E h \in Usable("enc"), len \in ConcLens, frame_size \in ConcFrameSizes :
         EncodeCall(t, h, len, frame_size)

ConcDecode(t) ==
    /\ Idle(t)
    /\ \E h \in Usable("dec"), len \in ConcLens, frame_size \in ConcFrameSizes :
         DecodeCall(t, h, len, frame_size)

ConcReleaseEncoder(t) ==
    /\ Idle(t)
    /\ \E h \in Usable("enc") : ReleaseCall(t, "releaseEncoder", "enc", h)

ConcReleaseDecoder(t) ==
    /\ Idle(t)
    /\ \E h \in Usable("dec") : ReleaseCall(t, "releaseDecoder", "dec", h)

ConcStep(t) ==
    \/ ConcInitEncoder(t)
    \/ ConcInitDecoder(t)
    \/ ConcEncode(t)
    \/ ConcDecode(t)
    \/ ConcReleaseEncoder(t)
    \/ ConcReleaseDecoder(t)
    \/ EncodeGetElements(t)
    \/ EncodeAlloc(t)
    \/ EncodeLib(t)
    \/ EncodeReleaseElements(t)
    \/ EncodeFailed(t)
    \/ EncodeResult(t)
    \/ EncodeFree(t)
    \/ DecodeGetElements(t)
    \/ DecodeAlloc(t)
    \/ DecodeLib(t)
    \/ DecodeReleaseElements(t)
    \/ DecodeFailed(t)
    \/ DecodeResult(t)
    \/ DecodeFree(t)
    \/ Return(t)

NextConc == \E t \in Threads : ConcStep(t)

\* The native functions called from two threads by a caller that passes only
\* tokens of its live sessions to the functions of their role, and never
\* enters a call with a token another call is using.
SpecConc == Init /\ [][NextConc]_vars

\* ------------------------------------------------------------------ claims

Codec == {"encode", "decode"}

Releases == {"releaseEncoder", "releaseDecoder"}

Inits == {"initEncoder", "initDecoder"}

KindOf(op) == IF op \in {"encode", "initEncoder", "releaseEncoder"} THEN "enc" ELSE "dec"

\* The session that handle h was the token of has been released with the
\* release call of its own role, and h has not been returned by an init since.
Released(h, kind) == [addr |-> ToPtr(h), kind |-> kind, by |-> kind] \in freed

\* C1: once release(T) has returned for a token T of an encoder (decoder)
\* session, a call encode(T, ...) (decode(T, ...)) makes no library call on
\* the freed instance and returns an absent result.
C1_ReleasedTokenRejected ==
    \A t \in Threads :
        (thr[t].op \in Codec /\ Released(thr[t].handle, KindOf(thr[t].op)))
            => /\ thr[t].libcalls = 0
               /\ thr[t].pc = "done" => thr[t].ret = Absent

\* C2: the library's destroy primitive is never invoked on an instance that
\* was already destroyed, whatever calls the caller makes.
C2_NoDoubleDestroy ==
    \A t \in Threads : thr[t].op \in Releases => thr[t].libOn # "freed"

\* C3: encode and decode with token 0 return an absent result at once: no
\* library call, no acquisition of the input array, no scratch allocation.
C3_SentinelRejected ==
    \A t \in Threads :
        (thr[t].op \in Codec /\ thr[t].handle = 0)
            => /\ thr[t].pc = "done"
               /\ thr[t].ret = Absent
               /\ thr[t].libcalls = 0
               /\ thr[t].acq = 0
               /\ thr[t].allocs = 0

C3_Witness ==
    \E t \in Threads :
        /\ thr[t].op = "encode" /\ thr[t].handle = 0 /\ thr[t].pc = "done"
        /\ thr[t].frame_size = 960 /\ thr[t].len = 1920
        /\ Len(sessions) > 0

\* C4: a call allocates at most one scratch buffer, never frees what it has
\* not allocated, and has freed it when it returns, on every exit path.
C4_ScratchReleased ==
    \A t \in Threads :
        /\ thr[t].allocs <= 1
        /\ thr[t].frees <= thr[t].allocs
        /\ thr[t].pc \in {"idle", "done"} => thr[t].frees = thr[t].allocs
        /\ (thr[t].pc = "done" /\ thr[t].libcalls = 1 /\ thr[t].op \in Codec)
              => thr[t].allocs = 1

C4_Witness ==
    \E t \in Threads :
        /\ thr[t].op = "encode" /\ thr[t].pc = "done" /\ thr[t].result < 0
        /\ thr[t].allocs = 1 /\ thr[t].frees = 1

\* C5: the tokens of the live sessions are nonzero and pairwise distinct.
C5_TokensDistinct ==
    /\ \A i \in DOMAIN sessions : sessions[i].token # 0
    /\ \A i, j \in DOMAIN sessions :
          i # j => sessions[i].token # sessions[j].token

C5_Witness ==
    /\ Len(sessions) = 2
    /\ sessions[1].role = "enc" /\ sessions[2].role = "dec"
    /\ sessions[1].channels = sessions[2].channels
    /\ \E t \in Threads : thr[t].pc = "done" /\ thr[t].op = "initDecoder"
                          /\ thr[t].tok = sessions[2].token

\* C6: createEncoder returns a nonzero token only when bitrate > 0, the
\* complexity is in the library's range and every configuration request
\* was accepted.
C6_ConfigRejectedGivesSentinel ==
    \A t \in Threads :
        (thr[t].op = "initEncoder" /\ thr[t].pc = "done" /\ thr[t].tok # 0)
            => /\ thr[t].args[4] > 0
               /\ thr[t].args[5] >= 0 /\ thr[t].args[5] <= 10
               /\ \A i \in DOMAIN thr[t].ctl : thr[t].ctl[i] = OPUS_OK

\* Every instance on the heap is the instance of exactly one session the
\* caller holds, and every session's token is the address of its instance.
LiveMatchesSessions ==
    /\ \A a \in Addr :
          heap[a] # Free =>
             \E i \in DOMAIN sessions :
                /\ ToPtr(sessions[i].token) = a
                /\ heap[a] = Instance(sessions[i].role, sessions[i].channels)
                /\ \A j \in DOMAIN sessions : ToPtr(sessions[j].token) = a => j = i
    /\ \A i \in DOMAIN sessions :
          /\ ToPtr(sessions[i].token) \in Addr
          /\ heap[ToPtr(sessions[i].token)] # Free

\* What an init call that has just returned in thread t did.
InitEffect(t) ==
    LET f == thr'[t]
        p == ToPtr(f.tok)
    IN  /\ f.err # OPUS_OK => f.tok = 0
        /\ f.tok = 0 => heap' = heap /\ sessions' = sessions
        /\ f.tok # 0 =>
              /\ p \in Addr
              /\ heap[p] = Free
              /\ heap' = [heap EXCEPT ![p] = Instance(KindOf(f.op), f.args[2])]
              /\ sessions' = Append(sessions, [token |-> f.tok, role |-> KindOf(f.op),
                                               channels |-> f.args[2]])

\* C7: when the library fails to create the instance, init returns 0 and
\* leaves the heap and the sessions as they were; a nonzero return is the
\* token of exactly one instance, created by this call; no instance is ever
\* allocated without a session holding its token.
C7_InitFailureLeavesNothing ==
    /\ []LiveMatchesSessions
    /\ [][\A t \in Threads :
             (thr[t].pc = "idle" /\ thr'[t].pc = "done" /\ thr'[t].op \in Inits)
                => InitEffect(t)]_vars

C7_Witness ==
    \E t \in Threads :
        /\ thr[t].op = "initDecoder" /\ thr[t].pc = "done"
        /\ thr[t].err = OPUS_ALLOC_FAIL /\ thr[t].tok = 0
        /\ Len(sessions) = 1

\* C8: a decode on a live decoder for which the library reports frame_size
\* samples per channel returns frame_size * channels * 2 bytes.
C8_RoundTripLength ==
    \A t \in Threads :
        (thr[t].op = "decode" /\ thr[t].pc = "done" /\ thr[t].libOn = "live"
            /\ thr[t].result = thr[t].frame_size)
            => thr[t].ret = Array(thr[t].frame_size * thr[t].ch * 2)

\* C9: in decode the samples the library may write (frame_size per channel)
\* never exceed the scratch buffer's 1024 samples, and the bytes copied into
\* the result never exceed the scratch buffer's size.
C9_DecodeWithinScratch ==
    \A t \in Threads :
        (thr[t].op = "decode" /\ thr[t].libcalls = 1 /\ thr[t].libOn = "live")
            => /\ thr[t].cap = 1024
               /\ thr[t].maxOut * thr[t].ch <= thr[t].cap
               /\ thr[t].copied <= thr[t].cap * 2

\* C10: the library is given 1024 as the size of the 1024-byte scratch
\* buffer, and an encode that returns an array returns exactly the bytes the
\* library reported, never more than 1024.
C10_EncodeLengthBounded ==
    \A t \in Threads :
        thr[t].op = "encode" =>
            /\ thr[t].libcalls = 1 => thr[t].maxOut = 1024 /\ thr[t].cap = 1024
            /\ (thr[t].pc = "done" /\ thr[t].ret # Absent)
                  => /\ thr[t].ret = Array(thr[t].result)
                     /\ thr[t].result >= 0
                     /\ thr[t].result <= 1024

C10_Witness ==
    \E t \in Threads :
        /\ thr[t].op = "encode" /\ thr[t].pc = "done" /\ thr[t].libOn = "live"
        /\ thr[t].result = 1024 /\ thr[t].ret = Array(1024)

InLib(t) == thr[t].op \in Codec /\ thr[t].libcalls = 1

\* C11: a call on one session works on that session's instance, on the input
\* array of its own caller and on its own scratch buffer, and its result is
\* made from its own input; two calls in progress on distinct tokens never
\* work on the same instance.
C11_SessionsIsolated ==
    /\ \A t \in Threads :
          InLib(t) => /\ thr[t].inst = ToPtr(thr[t].handle)
                      /\ thr[t].in = t
                      /\ thr[t].scr = t
                      /\ thr[t].ret # Absent => thr[t].out = t
    /\ \A t, u \in Threads :
          (t # u /\ InLib(t) /\ InLib(u) /\ thr[t].handle # thr[u].handle)
              => thr[t].inst # thr[u].inst

C11_Witness ==
    /\ thr["A"].op = "encode" /\ thr["A"].pc = "enc_free" /\ thr["A"].out = "A"
    /\ thr["B"].op = "encode" /\ thr["B"].pc = "enc_rel"
    /\ thr["A"].handle # thr["B"].handle
    /\ thr["A"].libOn = "live" /\ thr["B"].libOn = "live"

\* The heap and the caller's sessions are what they were.
SessionsUntouched == heap' = heap /\ sessions' = sessions /\ freed' = freed

\* C12: when the library reports a negative result the call returns an
\* absent result and creates no array; no step of encode or decode changes
\* the heap or the sessions, and the failed call leaves the thread as it was
\* before the call, so that later calls meet the state they would have met.
C12_CodecFailureRecoverable ==
    /\ [](\A t \in Threads :
            (InLib(t) /\ thr[t].result < 0 /\ thr[t].pc = "done")
                => thr[t].ret = Absent /\ thr[t].copied = 0 /\ thr[t].out = "none")
    /\ [][\A t \in Threads :
            (thr[t].op \in Codec \/ thr'[t].op \in Codec)
                => /\ SessionsUntouched
                   /\ (thr[t].pc = "done" /\ thr[t].result < 0 /\ thr'[t] # thr[t])
                         => thr'[t] = IdleFrame /\ crashed' = crashed]_vars

C12_Witness ==
    \E t \in Threads :
        /\ thr[t].op = "decode" /\ thr[t].pc = "done" /\ thr[t].libOn = "live"
        /\ thr[t].result = OPUS_INVALID_PACKET /\ thr[t].ret = Absent
        /\ Len(sessions) = 2

\* C13: release with token 0 makes no library call and changes nothing.
C13_ReleaseSentinelNoOp ==
    /\ [](\A t \in Threads :
            (thr[t].op \in Releases /\ thr[t].handle = 0)
                => thr[t].libcalls = 0 /\ thr[t].pc = "done")
    /\ [][\A t \in Threads :
            (thr[t].pc = "idle" /\ thr'[t].op \in Releases /\ thr'[t].handle = 0)
                => SessionsUntouched /\ crashed' = crashed]_vars

C13_Witness ==
    \E t \in Threads :
        /\ thr[t].op = "releaseDecoder" /\ thr[t].pc = "done" /\ thr[t].handle = 0
        /\ Len(sessions) = 2

\* C14: release(T) on the token of a live session calls destroy once on that
\* session's instance: when it returns the instance is freed, the caller
\* holds one session fewer, and every other instance is as it was.
C14_ReleaseFreesOnce ==
    [][\A t \in Threads :
         (thr[t].pc = "idle" /\ thr'[t].op \in Releases /\ thr'[t].libOn = "live")
            => LET h == thr'[t].handle
                   p == ToPtr(h)
               IN  /\ thr'[t].pc = "done"
                   /\ thr'[t].libcalls = 1
                   /\ p \in Addr
                   /\ heap[p] # Free
                   /\ heap' = [heap EXCEPT ![p] = Free]
                   /\ Len(sessions') = Len(sessions) - 1
                   /\ sessions' = SelectSeq(sessions, LAMBDA s : s.token # h)
                   /\ crashed' = crashed]_vars

C14_Witness ==
    \E t \in Threads :
        /\ thr[t].op = "releaseEncoder" /\ thr[t].pc = "done" /\ thr[t].libOn = "live"
        /\ heap[ToPtr(thr[t].handle)] = Free
        /\ Len(sessions) = 1

\* C15: encode (decode) with a nonzero token that is not the token of a live
\* encoder (decoder) session, a live session of the other role or a value no
\* init returned, makes no library call and returns an absent result.
C15_UnrecognizedTokenRejected ==
    \A t \in Threads :
        (thr[t].op \in Codec /\ thr[t].handle # 0
            /\ Classify(ToPtr(thr[t].handle), KindOf(thr[t].op)) \in {"wrong", "wild"})
            => /\ thr[t].libcalls = 0
               /\ thr[t].pc = "done" => thr[t].ret = Absent

\* C16: when the caller keeps the contract, every library encode, decode and
\* destroy call is made on a live instance of the matching role, and the
\* instance of a call in progress stays live until the call is done.
C16_AbidingCallerSafe ==
    \A t \in Threads :
        /\ thr[t].libcalls = 1 => thr[t].libOn = "live"
        /\ (thr[t].op \in Codec /\ thr[t].pc \notin {"idle", "done"})
              => Classify(ToPtr(thr[t].handle), KindOf(thr[t].op)) = "live"

C16_Witness ==
    /\ thr["A"].op = "decode" /\ thr["A"].pc = "dec_rel" /\ thr["A"].libOn = "live"
    /\ thr["B"].op = "releaseEncoder" /\ thr["B"].pc = "done"
    /\ thr["B"].libOn = "live"

\* C17: the caller's sessions and their instances change only by an init call
\* adding one session and by a release call removing the session of its
\* token; no other step touches them.
C17_SessionsChangeOnlyByInitAndRelease ==
    [][\A t \in Threads :
         thr'[t] # thr[t] =>
            LET h == thr'[t].handle
            IN  IF thr[t].pc = "idle" /\ thr'[t].op \in Releases /\ h # 0
                THEN /\ sessions' = SelectSeq(sessions, LAMBDA s : s.token # h)
                     /\ \A a \in Addr \ {ToPtr(h)} : heap'[a] = heap[a]
                ELSE IF thr[t].pc = "idle" /\ thr'[t].op \in Inits
                THEN /\ \/ sessions' = sessions
                        \/ /\ Len(sessions') = Len(sessions) + 1
                           /\ SubSeq(sessions', 1, Len(sessions)) = sessions
                     /\ \A a \in Addr : heap[a] # Free => heap'[a] = heap[a]
                ELSE heap' = heap /\ sessions' = sessions]_vars

C17_Witness ==
    \E t \in Threads :
        /\ thr[t].op = "getVersion" /\ thr[t].pc = "done"
        /\ Len(sessions) = 2

\* C18: the samples the library is told to read in encode, frame_size times
\* the channels of the session, never exceed the samples in the caller's
\* array, its length in bytes divided by 2.
C18_EncodeReadsWithinInput ==
    \A t \in Threads :
        (thr[t].op = "encode" /\ thr[t].libcalls = 1 /\ thr[t].libOn = "live")
            => thr[t].frame_size * thr[t].ch <= thr[t].len \div 2

\* C19: a call releases the elements of the input array exactly once if it
\* acquired them, after the library call and before it returns; the scratch
\* buffer of a call that succeeds is freed only after the result was copied.
C19_ElementsReleasedOnce ==
    \A t \in Threads :
        thr[t].op \in Codec =>
            /\ thr[t].acq <= 1
            /\ thr[t].rel <= thr[t].acq
            /\ thr[t].libcalls = 1 => thr[t].acq = 1
            /\ thr[t].rel = 1 => thr[t].libcalls = 1
            /\ thr[t].pc = "done" => thr[t].rel = thr[t].acq
            /\ thr[t].frees = 1 => thr[t].rel = 1
            /\ (thr[t].frees = 1 /\ thr[t].result >= 0)
                  => thr[t].ret # Absent /\ thr[t].out = thr[t].scr

C19_Witness ==
    \E t \in Threads :
        /\ thr[t].op = "decode" /\ thr[t].pc = "dec_free"
        /\ thr[t].acq = 1 /\ thr[t].rel = 1 /\ thr[t].frees = 0
        /\ thr[t].ret # Absent

====
